---- MODULE Spec2Model ----
(***************************************************************************)
(* Model of phalanx.services.secrets.SecretsService: the fixpoint          *)
(* resolution of secret declarations (_resolve_secrets, _resolve_secret),  *)
(* the reconciliation of the resolved secrets with Vault (sync and its     *)
(* helpers) and the audit.                                                 *)
(*                                                                         *)
(* Secret values are integers.  None is Python's None, Empty is            *)
(* SecretStr("") (a value that is falsy, because SecretStr has __len__),   *)
(* the next values are ordinary non-empty secrets, the values from         *)
(* PullBase upwards are serialized pull secrets and the values from        *)
(* GenBase upwards are produced by the generators.                         *)
(***************************************************************************)
EXTENDS Integers, Sequences, FiniteSets, TLC

\* ------------------------------------------------------------------ bounds
\* Longest list of declarations
MaxSecrets == 3
\* Longest list of declarations of an environment that is synced or audited
MaxSyncSecrets == 2
\* Operations (sync, audit) run one after the other
MaxRuns == 2
\* Writes another client of Vault makes while a sync runs
MaxExternalWrites == 1

\* ------------------------------------------------------------------ values
None == 0 - 1
Empty == 0

\* Values of literals, of static secrets and of the keys found in Vault
LiteralValues == {1}
StaticValues == {2}
CurrentValues == {1, 3}

\* Values another client of Vault writes
ExternalValues == {2}

\* Registry passwords of a pull secret
Passwords == {1, 2}
Registries == {"r1", "r2"}

\* bool(value) of an optional SecretStr
Truthy(v) == v # None /\ v # Empty

\* An empty dict
EmptyDict == [k \in {} |-> None]

\* d.get(k)
Get(d, k) == IF k \in DOMAIN d THEN d[k] ELSE None

\* d.get(a, {}).get(k)
Get2(d, a, k) == IF a \in DOMAIN d THEN Get(d[a], k) ELSE None

\* d[k] = v on a dict
Put(d, k, v) == [x \in DOMAIN d \cup {k} |-> IF x = k THEN v ELSE d[x]]

\* d[a][k] = v on a defaultdict(dict)
Put2(d, a, k, v) == Put(d, a, Put(IF a \in DOMAIN d THEN d[a] ELSE EmptyDict, k, v))

\* del d[k]
Del(d, k) == [x \in DOMAIN d \ {k} |-> d[x]]

\* ------------------------------------------------------------ declarations
\* The (application, key) pairs that declarations are drawn from
Apps == {"a", "b"}
Keys == {"k1", "k2"}
Pairs == {<<"a", "k1">>, <<"a", "k2">>, <<"b", "k1">>}

\* No copy rule (config.copy_rules is None)
NoCopy == <<>>

\* A Secret: value is the literal (None when there is none), copy_rules the
\* <<application, key>> copied from, generate the kind of generate rule
\* ("none", "plain" or "source") and source the key a from-source rule reads.
MkSecret(a, k, v, c, g, s) ==
    [application |-> a, key |-> k, value |-> v, copy_rules |-> c,
     generate |-> g, source |-> s]

Literal(a, k, v) == MkSecret(a, k, v, NoCopy, "none", "")
Copy(a, k, ca, ck) == MkSecret(a, k, None, <<ca, ck>>, "none", "")
Generate(a, k) == MkSecret(a, k, None, NoCopy, "plain", "")
GenerateFrom(a, k, s) == MkSecret(a, k, None, NoCopy, "source", s)
Static(a, k) == MkSecret(a, k, None, NoCopy, "none", "")

\* The declarations of one (application, key), one rule kind each: a copy
\* is of another pair, a from-source rule reads another key of the application
SecretsOf(a, k) ==
    {Literal(a, k, v) : v \in LiteralValues}
    \cup {Copy(a, k, c[1], c[2]) : c \in Pairs \ {<<a, k>>}}
    \cup {Generate(a, k)}
    \cup {GenerateFrom(a, k, s) : s \in Keys \ {k}}
    \cup {Static(a, k)}

AllSecrets == UNION {SecretsOf(p[1], p[2]) : p \in Pairs}

PairOf(config) == <<config.application, config.key>>

DeclaredPairs(l) == {PairOf(l[i]) : i \in 1..Len(l)}

RECURSIVE SecretLists(_)
\* environment.all_secrets(): the lists of at most n declarations with no
\* (application, key) declared twice
SecretLists(n) ==
    IF n = 0 THEN {<<>>}
    ELSE LET shorter == SecretLists(n - 1)
         IN  shorter \cup
             {Append(lc[1], lc[2]) : lc \in
                 {x \in shorter \X AllSecrets :
                     /\ Len(x[1]) = n - 1
                     /\ PairOf(x[2]) \notin DeclaredPairs(x[1])}}

\* The dict application -> key -> value of a function on pairs; a pair
\* mapped to None has no entry
ToDict(f) ==
    LET present == {p \in DOMAIN f : f[p] # None}
    IN  [a \in {p[1] : p \in present} |->
            [k \in {p[2] : p \in {q \in present : q[1] = a}} |-> f[<<a, k>>]]]

\* The dicts with entries for some of the pairs ps and values from vals
DictsOver(ps, vals) == {ToDict(f) : f \in [ps -> vals \cup {None}]}

\* ------------------------------------------------------------ pull secret
\* static_secrets.pull_secret: None, or a PullSecret with its registries
NoPullSecret == [configured |-> FALSE, registries |-> EmptyDict]
PullSecret(regs) == [configured |-> TRUE, registries |-> regs]

Max(S) == CHOOSE m \in S : \A x \in S : x <= m

PullBase == Max(LiteralValues \cup StaticValues \cup CurrentValues) + 1
PasswordBase == Max(Passwords) + 1
RegistrySeq == <<"r1", "r2">>

RECURSIVE RegistryCode(_, _)
RegistryCode(regs, i) ==
    IF i > Len(RegistrySeq) THEN 0
    ELSE (IF RegistrySeq[i] \in DOMAIN regs THEN regs[RegistrySeq[i]] ELSE 0)
         + PasswordBase * RegistryCode(regs, i + 1)

\* pull_secret.to_dockerconfigjson(): one value for the whole composite,
\* different for different registries or passwords
ToDockerconfigjson(ps) == PullBase + RegistryCode(ps.registries, 1)

\* The generators' values lie above every other value
GenBase == ToDockerconfigjson(PullSecret([r \in Registries |-> Max(Passwords)])) + 1

\* ---------------------------------------------------------------- state
VARIABLES
    secrets,        \* environment.all_secrets()
    static_secrets, \* static values, application -> key -> value
    pull_secret,    \* static_secrets.pull_secret
    regenerate,     \* sync's regenerate flag
    delete,         \* sync's delete flag
    vault,          \* Vault itself, application -> key -> value
    vault_secrets,  \* the snapshot read from Vault
    resolved,       \* the resolved table, application -> key -> value
    order,          \* insertion order of resolved: <<application, key>> pairs
    unresolved,     \* the pending declarations
    left,           \* pending count before the pass
    passes,         \* passes of the while loop made so far
    gen,            \* number of values the generators have produced
    todo,           \* applications the running for loop has still to visit
    events,         \* what the operation has printed, in order
    calls,          \* the Vault client calls the operation has made, in order
    report,         \* audit's [missing, mismatch, unknown]
    started,        \* the operations started so far, in order
    op,             \* the operation running
    pc,             \* its position
    external        \* the writes another client of Vault has made, in order

inputs == <<secrets, static_secrets, pull_secret, regenerate, delete>>
resolution == <<resolved, order, unresolved, left, passes, gen>>
vars == <<secrets, static_secrets, pull_secret, regenerate, delete, vault,
          vault_secrets, resolved, order, unresolved, left, passes, gen, todo,
          events, calls, report, started, op, pc, external>>

\* ------------------------------------------------------------- generators
\* config.generate.generate(): a value never produced before
GenerateValue(n) == GenBase + n

\* config.generate.generate(other): derived from the source with a fresh
\* salt or time stamp, so it is new on every call as well
GenerateFromValue(other, n) == GenBase + n

\* ---------------------------------------------------------- _resolve_secret
\* (The lookup in the declaration's own application instead.)
CopyLookupOwnApplication(config, res) ==
    Get2(res, config.application, config.copy_rules[2])

\* resolved.get(application, {}).get(config.copy_rules.key), the
\* application being config.copy_rules.application
CopyLookup(config, res) == Get2(res, config.copy_rules[1], config.copy_rules[2])

\* (The test without the regenerate flag.)
KeepCurrentAlways(current_value, regen) == Truthy(current_value)

\* current_value and not regenerate
KeepCurrent(current_value, regen) == Truthy(current_value) /\ ~regen

\* (The current value before the static one.)
FallbackCurrentFirst(static_value, current_value) ==
    IF Truthy(current_value) THEN current_value ELSE static_value

\* static_value or current_value
Fallback(static_value, current_value) ==
    IF Truthy(static_value) THEN static_value ELSE current_value

\* The result is [value, gen]: the value (None when the secret cannot be
\* resolved yet) and the generator count afterwards.
ResolveSecret(config, res, current_value, static_value, regen, n) ==
    IF Truthy(config.value)
    THEN [value |-> config.value, gen |-> n]
    ELSE IF config.copy_rules # NoCopy
    THEN LET other == CopyLookup(config, res)
         IN  IF ~Truthy(other)
             THEN [value |-> None, gen |-> n]
             ELSE [value |-> other, gen |-> n]
    ELSE IF config.generate # "none"
    THEN IF KeepCurrent(current_value, regen)
         THEN [value |-> current_value, gen |-> n]
         ELSE IF config.generate = "source"
         THEN LET other == Get2(res, config.application, config.source)
              IN  IF ~Truthy(other)
                  THEN [value |-> None, gen |-> n]
                  ELSE [value |-> GenerateFromValue(other, n), gen |-> n + 1]
         ELSE [value |-> GenerateValue(n), gen |-> n + 1]
    ELSE [value |-> Fallback(static_value, current_value), gen |-> n]

\* ------------------------------------------------ _resolve_secrets, one pass
\* The regenerate argument: sync passes its flag, audit leaves the default
Regenerating == op # "audit" /\ regenerate

RECURSIVE ResolveLoopFirstOnly(_, _, _)
\* (A pass that stops at the first declaration it resolves and leaves the
\* rest pending.)
ResolveLoopFirstOnly(pending, i, st) ==
    IF i > Len(pending) THEN st
    ELSE LET config == pending[i]
             app_name == config.application
             current_value == Get2(vault_secrets, app_name, config.key)
             static_value == Get2(static_secrets, app_name, config.key)
             r == ResolveSecret(config, st.resolved, current_value,
                                static_value, Regenerating, st.gen)
         IN  IF Truthy(r.value)
             THEN [st EXCEPT !.resolved = Put2(@, app_name, config.key, r.value),
                             !.order = Append(@, PairOf(config)),
                             !.unresolved = @ \o SubSeq(pending, i + 1, Len(pending)),
                             !.gen = r.gen]
             ELSE ResolveLoopFirstOnly(pending, i + 1,
                      [st EXCEPT !.unresolved = Append(@, config), !.gen = r.gen])

RECURSIVE ResolveLoop(_, _, _)
\* for config in secrets: the body of the while loop, from declaration i on.
\* st is [resolved, order, unresolved, gen].
ResolveLoop(pending, i, st) ==
    IF i > Len(pending) THEN st
    ELSE LET config == pending[i]
             app_name == config.application
             current_value == Get2(vault_secrets, app_name, config.key)
             static_value == Get2(static_secrets, app_name, config.key)
             r == ResolveSecret(config, st.resolved, current_value,
                                static_value, Regenerating, st.gen)
         IN  IF Truthy(r.value)
             THEN ResolveLoop(pending, i + 1,
                      [st EXCEPT !.resolved = Put2(@, app_name, config.key, r.value),
                                 !.order = Append(@, PairOf(config)),
                                 !.gen = r.gen])
             ELSE ResolveLoop(pending, i + 1,
                      [st EXCEPT !.unresolved = Append(@, config), !.gen = r.gen])

\* (Raising as soon as a pass leaves anything pending.)
NoProgressEager(pending, before) == pending > 0

\* (Raising only when the pending list has grown.)
NoProgressNever(pending, before) == pending > before

\* len(unresolved) >= left: the pass has not shrunk the pending list
NoProgress(pending, before) == pending >= before

\* (The count left as it was.)
LeftAfterStale(pending, before) == before

\* left = len(unresolved)
LeftAfter(pending, before) == pending

\* One iteration of "while unresolved"; the pass that does not shrink the
\* pending list raises UnresolvedSecretsError(unresolved)
ResolvePass ==
    /\ pc = "resolve"
    /\ unresolved # <<>>
    /\ LET st == ResolveLoop(unresolved, 1,
                     [resolved |-> resolved, order |-> order,
                      unresolved |-> <<>>, gen |-> gen])
       IN  /\ resolved' = st.resolved
           /\ order' = st.order
           /\ unresolved' = st.unresolved
           /\ gen' = st.gen
           /\ passes' = passes + 1
           /\ IF NoProgress(Len(st.unresolved), left)
              THEN pc' = "raised" /\ left' = left
              ELSE pc' = "resolve" /\ left' = LeftAfter(Len(st.unresolved), left)
    /\ UNCHANGED <<inputs, external, vault, vault_secrets, todo, events, calls, report,
                   started, op>>

\* (A return while declarations are still pending.)
ResolveReturnEarly ==
    /\ pc = "resolve"
    /\ op = "resolve"
    /\ pc' = "returned"
    /\ UNCHANGED <<inputs, external, resolution, vault, vault_secrets, todo, events,
                   calls, report, started, op>>

\* The loop ends: return ResolvedSecrets(applications=resolved,
\* pull_secret=static_secrets.pull_secret) to resolve's caller
ResolveReturn ==
    /\ pc = "resolve"
    /\ unresolved = <<>>
    /\ op = "resolve"
    /\ pc' = "returned"
    /\ UNCHANGED <<inputs, external, resolution, vault, vault_secrets, todo, events,
                   calls, report, started, op>>

\* ------------------------------------------------------------ Vault client
\* vault_client.store_application_secret(application, values): the entry
\* is replaced by values
StoreApplicationSecret(v, application, values) == Put(v, application, values)

\* vault_client.update_application_secret(application, key, secret): one
\* key of the entry is set, the others stay
UpdateApplicationSecret(v, application, key, secret) ==
    Put2(v, application, key, secret)

\* vault_client.delete_application_secret(application)
DeleteApplicationSecret(v, application) == Del(v, application)

\* vault_client.get_environment_secrets() lists the applications by name
ApplicationSeq == <<"a", "b", "pull-secret">>
\* sorted(keys)
KeySeq == <<".dockerconfigjson", "k1", "k2">>

Event(kind, application, key) ==
    [kind |-> kind, application |-> application, key |-> key]
Call(name, application, key) ==
    [call |-> name, application |-> application, key |-> key]

\* The applications of resolved and the keys of one of them, in dict order
RECURSIVE Dedup(_)
Dedup(s) ==
    IF s = <<>> THEN <<>>
    ELSE LET front == Dedup(SubSeq(s, 1, Len(s) - 1))
             x == s[Len(s)]
         IN  IF \E i \in 1..Len(front) : front[i] = x THEN front
             ELSE Append(front, x)

ResolvedApplications(ord) == Dedup([i \in 1..Len(ord) |-> ord[i][1]])

ResolvedKeys(ord, application) ==
    LET Test(p) == p[1] = application
        mine == SelectSeq(ord, Test)
    IN  [i \in 1..Len(mine) |-> mine[i][2]]

SnapshotApplications(snapshot) ==
    LET Test(a) == a \in DOMAIN snapshot IN SelectSeq(ApplicationSeq, Test)

\* ------------------------------------------------------------------- sync
\* Where sync goes on after a loop or a step: the first of the remaining
\* steps that has something to do.

\* (The cleaning done whatever the delete flag is.)
EnterCleanAlways(snapshot) ==
    IF SnapshotApplications(snapshot) # <<>>
    THEN [pc |-> "clean", todo |-> SnapshotApplications(snapshot)]
    ELSE [pc |-> "done", todo |-> <<>>]

\* if delete: self._clean_vault_secrets(...)
EnterClean(snapshot) ==
    IF delete /\ SnapshotApplications(snapshot) # <<>>
    THEN [pc |-> "clean", todo |-> SnapshotApplications(snapshot)]
    ELSE [pc |-> "done", todo |-> <<>>]

EnterPullSecret(snapshot) ==
    IF pull_secret.configured /\ pull_secret.registries # EmptyDict
    THEN [pc |-> "sync_pull", todo |-> <<>>]
    ELSE EnterClean(snapshot)

EnterApplications(ord, snapshot) ==
    IF ResolvedApplications(ord) # <<>>
    THEN [pc |-> "sync_apps", todo |-> ResolvedApplications(ord)]
    ELSE EnterPullSecret(snapshot)

\* sync, lines 237-242: load the declarations and read the snapshot.  (An
\* operation starts when none runs; an audit changes nothing a later
\* operation reads, so the operations that follow one are left out.)
SyncStart ==
    /\ pc \in {"idle", "done"}
    /\ Len(started) < MaxRuns
    /\ started' = Append(started, "sync")
    /\ op' = "sync"
    /\ pc' = "resolve"
    /\ vault_secrets' = vault
    /\ resolved' = EmptyDict
    /\ order' = <<>>
    /\ unresolved' = secrets
    /\ left' = Len(secrets)
    /\ passes' = 0
    /\ events' = <<>>
    /\ calls' = <<>>
    /\ todo' = <<>>
    /\ UNCHANGED <<inputs, external, vault, gen, report>>

\* (Going on to the reconciliation with declarations still pending.)
SyncResolvedPartial ==
    /\ pc = "resolve"
    /\ op = "sync"
    /\ LET next == EnterApplications(order, vault_secrets)
       IN  pc' = next.pc /\ todo' = next.todo
    /\ UNCHANGED <<inputs, external, resolution, vault, vault_secrets, events, calls,
                   report, started, op>>

\* _resolve_secrets returns to sync
SyncResolved ==
    /\ pc = "resolve"
    /\ unresolved = <<>>
    /\ op = "sync"
    /\ LET next == EnterApplications(order, vault_secrets)
       IN  pc' = next.pc /\ todo' = next.todo
    /\ UNCHANGED <<inputs, external, resolution, vault, vault_secrets, events, calls,
                   report, started, op>>

RECURSIVE UpdateKeysChecked(_, _, _, _)
\* (The loop with a check before each update that Vault still holds what
\* the snapshot has read, the update being left out when it does not.)
UpdateKeysChecked(application, keys, i, st) ==
    IF i > Len(keys) THEN st
    ELSE LET key == keys[i]
             secret == resolved[application][key]
         IN  IF /\ secret # Get(vault_secrets[application], key)
                /\ Get2(st.vault, application, key) = Get(vault_secrets[application], key)
             THEN UpdateKeysChecked(application, keys, i + 1,
                      [vault |-> UpdateApplicationSecret(st.vault, application, key, secret),
                       events |-> Append(st.events, Event("updated", application, key)),
                       calls |-> Append(st.calls, Call("update", application, key))])
             ELSE UpdateKeysChecked(application, keys, i + 1, st)

RECURSIVE UpdateKeys(_, _, _, _)
\* for key, secret in values.items(), from key i on. st is [vault, events, calls].
UpdateKeys(application, keys, i, st) ==
    IF i > Len(keys) THEN st
    ELSE LET key == keys[i]
             secret == resolved[application][key]
         IN  IF secret # Get(vault_secrets[application], key)
             THEN UpdateKeys(application, keys, i + 1,
                      [vault |-> UpdateApplicationSecret(st.vault, application, key, secret),
                       events |-> Append(st.events, Event("updated", application, key)),
                       calls |-> Append(st.calls, Call("update", application, key))])
             ELSE UpdateKeys(application, keys, i + 1, st)

\* _sync_application_secrets: one iteration of the loop over the resolved
\* applications
SyncApplication ==
    /\ pc = "sync_apps"
    /\ todo # <<>>
    /\ LET application == Head(todo)
           values == resolved[application]
           st == IF application \notin DOMAIN vault_secrets
                 THEN [vault |-> StoreApplicationSecret(vault, application, values),
                       events |-> Append(events, Event("created", application, "")),
                       calls |-> Append(calls, Call("store", application, ""))]
                 ELSE UpdateKeys(application, ResolvedKeys(order, application), 1,
                                 [vault |-> vault, events |-> events, calls |-> calls])
           next == IF Tail(todo) # <<>>
                   THEN [pc |-> "sync_apps", todo |-> Tail(todo)]
                   ELSE EnterPullSecret(vault_secrets)
       IN  /\ vault' = st.vault
           /\ events' = st.events
           /\ calls' = st.calls
           /\ pc' = next.pc
           /\ todo' = next.todo
    /\ UNCHANGED <<inputs, external, resolution, vault_secrets, report, started, op>>

\* (The comparison of the one key sync writes.)
PullSecretDiffersInKey(secret, entry) ==
    secret[".dockerconfigjson"] # Get(entry, ".dockerconfigjson")

\* secret != vault_secrets["pull-secret"]
PullSecretDiffers(secret, entry) == secret # entry

\* _sync_pull_secret
SyncPullSecret ==
    /\ pc = "sync_pull"
    /\ LET value == ToDockerconfigjson(pull_secret)
           secret == [k \in {".dockerconfigjson"} |-> value]
           next == EnterClean(vault_secrets)
       IN  /\ IF "pull-secret" \notin DOMAIN vault_secrets
              THEN /\ vault' = StoreApplicationSecret(vault, "pull-secret", secret)
                   /\ events' = Append(events, Event("created", "pull-secret", ""))
                   /\ calls' = Append(calls, Call("store", "pull-secret", ""))
              ELSE IF PullSecretDiffers(secret, vault_secrets["pull-secret"])
              THEN /\ vault' = StoreApplicationSecret(vault, "pull-secret", secret)
                   /\ events' = Append(events, Event("updated", "pull-secret", ""))
                   /\ calls' = Append(calls, Call("store", "pull-secret", ""))
              ELSE UNCHANGED <<vault, events, calls>>
           /\ pc' = next.pc
           /\ todo' = next.todo
    /\ UNCHANGED <<inputs, external, resolution, vault_secrets, report, started, op>>

RECURSIVE DeletedKeys(_, _, _, _)
\* for key in sorted(to_delete): print("Deleted Vault secret for", ...)
DeletedKeys(application, to_delete, i, evs) ==
    IF i > Len(KeySeq) THEN evs
    ELSE DeletedKeys(application, to_delete, i + 1,
             IF KeySeq[i] \in to_delete
             THEN Append(evs, Event("deleted", application, KeySeq[i]))
             ELSE evs)

\* application == "pull-secret" and has_pull_secret: the entry clean keeps
Protected(application, has_pull_secret) ==
    application = "pull-secret" /\ has_pull_secret

\* (The test sync makes before it syncs the pull secret.)
HasPullSecretWithRegistries(ps) == ps.configured /\ ps.registries # EmptyDict

\* resolved.pull_secret is not None
HasPullSecret(ps) == ps.configured

\* _clean_vault_secrets: one iteration of the loop over the snapshot
CleanApplication ==
    /\ pc = "clean"
    /\ todo # <<>>
    /\ LET application == Head(todo)
           values == vault_secrets[application]
           has_pull_secret == HasPullSecret(pull_secret)
       IN  IF application \notin DOMAIN resolved
           THEN IF Protected(application, has_pull_secret)
                THEN UNCHANGED <<vault, vault_secrets, events, calls>>
                ELSE /\ events' = Append(events, Event("deleted", application, ""))
                     /\ vault' = DeleteApplicationSecret(vault, application)
                     /\ calls' = Append(calls, Call("delete", application, ""))
                     /\ UNCHANGED vault_secrets
           ELSE LET expected == resolved[application]
                    to_delete == DOMAIN values \ DOMAIN expected
                    kept == [k \in DOMAIN values \ to_delete |-> values[k]]
                IN  IF to_delete # {}
                    THEN /\ vault_secrets' = Put(vault_secrets, application, kept)
                         /\ vault' = StoreApplicationSecret(vault, application, kept)
                         /\ calls' = Append(calls, Call("store", application, ""))
                         /\ events' = DeletedKeys(application, to_delete, 1, events)
                    ELSE UNCHANGED <<vault, vault_secrets, events, calls>>
    /\ todo' = Tail(todo)
    /\ pc' = IF Tail(todo) = <<>> THEN "done" ELSE "clean"
    /\ UNCHANGED <<inputs, external, resolution, report, started, op>>

\* --------------------------------------------------- a Vault call that fails
RECURSIVE UpdateKeysUntil(_, _, _, _, _)
\* The loop of UpdateKeys stopped by the update that raises after n
\* updates have succeeded.  st is [vault, events, calls, raised].
UpdateKeysUntil(application, keys, i, st, n) ==
    IF i > Len(keys) THEN st
    ELSE LET key == keys[i]
             secret == resolved[application][key]
         IN  IF secret # Get(vault_secrets[application], key)
             THEN IF n = 0 THEN [st EXCEPT !.raised = TRUE]
                  ELSE UpdateKeysUntil(application, keys, i + 1,
                           [vault |-> UpdateApplicationSecret(st.vault, application, key, secret),
                            events |-> Append(st.events, Event("updated", application, key)),
                            calls |-> Append(st.calls, Call("update", application, key)),
                            raised |-> FALSE],
                           n - 1)
             ELSE UpdateKeysUntil(application, keys, i + 1, st, n)

\* _sync_application_secrets where a call to Vault raises: the store call
\* of line 508 before anything is printed, or one of the update calls of
\* line 514 after the updates before it.  The exception leaves sync.
SyncApplicationFails ==
    /\ pc = "sync_apps"
    /\ todo # <<>>
    /\ LET application == Head(todo)
       IN  IF application \notin DOMAIN vault_secrets
           THEN UNCHANGED <<vault, events, calls>>
           ELSE \E n \in 0..(Len(ResolvedKeys(order, application)) - 1) :
                    LET st == UpdateKeysUntil(application,
                                  ResolvedKeys(order, application), 1,
                                  [vault |-> vault, events |-> events,
                                   calls |-> calls, raised |-> FALSE], n)
                    IN  /\ st.raised
                        /\ vault' = st.vault
                        /\ events' = st.events
                        /\ calls' = st.calls
    /\ pc' = "failed"
    /\ UNCHANGED <<inputs, external, resolution, vault_secrets, todo, report, started, op>>

\* _sync_pull_secret where the store call of line 539 or 542 raises
SyncPullSecretFails ==
    /\ pc = "sync_pull"
    /\ LET secret == [k \in {".dockerconfigjson"} |-> ToDockerconfigjson(pull_secret)]
       IN  IF "pull-secret" \notin DOMAIN vault_secrets THEN TRUE
           ELSE PullSecretDiffers(secret, vault_secrets["pull-secret"])
    /\ pc' = "failed"
    /\ UNCHANGED <<inputs, external, resolution, vault, vault_secrets, todo, events,
                   calls, report, started, op>>

\* _clean_vault_secrets where a call to Vault raises: the delete call of
\* line 294, which comes after the print of line 293, or the store call
\* of line 301, which comes after the keys have been taken out of the
\* snapshot's entry and before the prints of line 303
CleanApplicationFails ==
    /\ pc = "clean"
    /\ todo # <<>>
    /\ LET application == Head(todo)
           values == vault_secrets[application]
           has_pull_secret == HasPullSecret(pull_secret)
       IN  IF application \notin DOMAIN resolved
           THEN /\ ~Protected(application, has_pull_secret)
                /\ events' = Append(events, Event("deleted", application, ""))
                /\ UNCHANGED vault_secrets
           ELSE LET expected == resolved[application]
                    to_delete == DOMAIN values \ DOMAIN expected
                    kept == [k \in DOMAIN values \ to_delete |-> values[k]]
                IN  /\ to_delete # {}
                    /\ vault_secrets' = Put(vault_secrets, application, kept)
                    /\ UNCHANGED events
    /\ pc' = "failed"
    /\ UNCHANGED <<inputs, external, resolution, vault, todo, calls, report, started, op>>

\* ------------------------------------------- another client of Vault
\* Another client sets a key in Vault while a sync is between the read of
\* its snapshot (line 242) and its end.  The write is recorded with the
\* run it falls into and the number of calls that run has made before it.
ExternalWrite ==
    /\ op = "sync"
    /\ pc \in {"resolve", "sync_apps", "sync_pull", "clean"}
    /\ Len(external) < MaxExternalWrites
    /\ \E p \in Pairs : \E v \in ExternalValues :
           /\ vault' = UpdateApplicationSecret(vault, p[1], p[2], v)
           /\ external' = Append(external,
                               [application |-> p[1], key |-> p[2], value |-> v,
                                run |-> Len(started), after |-> Len(calls)])
    /\ UNCHANGED <<inputs, resolution, vault_secrets, todo, events, calls,
                   report, started, op, pc>>

\* ------------------------------------------------------------------ audit
\* audit, lines 73-81: load the declarations and read the snapshot
AuditStart ==
    /\ pc \in {"idle", "done"}
    /\ Len(started) < MaxRuns
    /\ started' = Append(started, "audit")
    /\ op' = "audit"
    /\ pc' = "resolve"
    /\ vault_secrets' = vault
    /\ resolved' = EmptyDict
    /\ order' = <<>>
    /\ unresolved' = secrets
    /\ left' = Len(secrets)
    /\ passes' = 0
    /\ events' = <<>>
    /\ calls' = <<>>
    /\ todo' = <<>>
    /\ UNCHANGED <<inputs, external, vault, gen, report>>

RECURSIVE Items(_, _)
\* for app_name, values in resolved.applications.items(): for key, secret
\* in values.items(): the pairs in the order the loops visit them
Items(ord, apps) ==
    IF apps = <<>> THEN <<>>
    ELSE LET keys == ResolvedKeys(ord, Head(apps))
         IN  [i \in 1..Len(keys) |-> <<Head(apps), keys[i]>>] \o Items(ord, Tail(apps))

\* (The snapshot left as it was.)
ConsumeNothing(snapshot, app_name, key) == snapshot

\* del vault_secrets[app_name][key]
Consume(snapshot, app_name, key) ==
    Put(snapshot, app_name, Del(snapshot[app_name], key))

RECURSIVE Compare(_, _, _)
\* The body of audit's loops, from item i on. st is [missing, mismatch, snapshot].
Compare(items, i, st) ==
    IF i > Len(items) THEN st
    ELSE LET app_name == items[i][1]
             key == items[i][2]
             secret == resolved[app_name][key]
         IN  IF app_name \notin DOMAIN st.snapshot
                \/ key \notin DOMAIN st.snapshot[app_name]
             THEN Compare(items, i + 1,
                      [st EXCEPT !.missing = Append(@, <<app_name, key>>)])
             ELSE Compare(items, i + 1,
                      [missing |-> st.missing,
                       mismatch |-> IF secret # st.snapshot[app_name][key]
                                    THEN Append(st.mismatch, <<app_name, key>>)
                                    ELSE st.mismatch,
                       snapshot |-> Consume(st.snapshot, app_name, key)])

RECURSIVE Unknown(_, _, _)
\* [f"{a} {k}" for a, lv in vault_secrets.items() for k in lv]
Unknown(snapshot, i, j) ==
    IF i > Len(ApplicationSeq) THEN <<>>
    ELSE IF ApplicationSeq[i] \notin DOMAIN snapshot \/ j > Len(KeySeq)
    THEN Unknown(snapshot, i + 1, 1)
    ELSE IF KeySeq[j] \in DOMAIN snapshot[ApplicationSeq[i]]
    THEN <<<<ApplicationSeq[i], KeySeq[j]>>>> \o Unknown(snapshot, i, j + 1)
    ELSE Unknown(snapshot, i, j + 1)

NoReport == [missing |-> <<>>, mismatch |-> <<>>, unknown |-> <<>>]

\* _resolve_secrets returns to audit, which compares the resolved secrets
\* to the snapshot (lines 89-101)
AuditCompare ==
    /\ pc = "resolve"
    /\ unresolved = <<>>
    /\ op = "audit"
    /\ LET st == Compare(Items(order, ResolvedApplications(order)), 1,
                     [missing |-> <<>>, mismatch |-> <<>>, snapshot |-> vault_secrets])
       IN  /\ vault_secrets' = st.snapshot
           /\ report' = [missing |-> st.missing, mismatch |-> st.mismatch,
                         unknown |-> Unknown(st.snapshot, 1, 1)]
    /\ pc' = "audited"
    /\ UNCHANGED <<inputs, external, resolution, vault, todo, events, calls, started, op>>

\* ----------------------------------------------------------- specifications
\* The pull secrets of an environment: none, one without registries, and
\* two that differ in one registry's password
PullSecrets ==
    {NoPullSecret, PullSecret(EmptyDict)}
    \cup {PullSecret([r \in Registries |-> IF r = "r1" THEN p ELSE Max(Passwords)]) :
             p \in Passwords}

\* The "pull-secret" entries Vault may hold: the first pull secret
\* serialized, alone or beside another key
PullSecretEntries ==
    LET value == ToDockerconfigjson(PullSecret([r \in Registries |-> Max(Passwords)]))
    IN  {[k \in {".dockerconfigjson"} |-> value],
         [k \in {".dockerconfigjson", "k1"} |->
             IF k = "k1" THEN Max(CurrentValues) ELSE value]}

\* What Vault may hold for the applications: a.k1 any current value, a.k2
\* an empty or a non-empty value, b.k1 a non-empty value, or no such key
VaultValues(p) ==
    IF p = <<"a", "k1">> THEN CurrentValues
    ELSE IF p = <<"a", "k2">> THEN {Empty, Max(CurrentValues)}
    ELSE {Max(CurrentValues)}

VaultDicts ==
    {ToDict(f) : f \in {g \in [Pairs -> CurrentValues \cup {Empty, None}] :
                           \A p \in Pairs : g[p] \in VaultValues(p) \cup {None}}}

\* What the snapshot may hold for a declared pair when resolve is taken by
\* itself: one non-empty value, for a.k2 also the empty one, or no such key
SnapshotValues(p) ==
    IF p = <<"a", "k2">> THEN {Empty, Max(CurrentValues)} ELSE {Max(CurrentValues)}

SnapshotDicts(ps) ==
    {ToDict(f) : f \in {g \in [ps -> CurrentValues \cup {Empty, None}] :
                           \A p \in ps : g[p] \in SnapshotValues(p) \cup {None}}}

\* The static values matter to the declarations without a rule
StaticPairs(l) ==
    {PairOf(l[i]) : i \in {j \in 1..Len(l) : l[j] = Static(l[j].application, l[j].key)}}

\* Before the first operation: the environment's declarations, static
\* secrets and pull secret, the flags given to sync, and what Vault holds
InitWith(lists, pulls, dicts, entries) ==
    /\ secrets \in lists
    /\ static_secrets \in DictsOver(StaticPairs(secrets), StaticValues)
    /\ pull_secret \in pulls
    /\ regenerate \in BOOLEAN
    /\ delete \in BOOLEAN
    /\ \E apps \in dicts :
           vault \in {apps} \cup {Put(apps, "pull-secret", e) : e \in entries}
    /\ vault_secrets = EmptyDict
    /\ resolved = EmptyDict
    /\ order = <<>>
    /\ unresolved = <<>>
    /\ left = 0
    /\ passes = 0
    /\ gen = 0
    /\ todo = <<>>
    /\ events = <<>>
    /\ calls = <<>>
    /\ report = NoReport
    /\ started = <<>>
    /\ op = "none"
    /\ pc = "idle"
    /\ external = <<>>

\* Environments with up to MaxSyncSecrets declarations, with or without a
\* pull secret, and no "pull-secret" entry in Vault yet
Init ==
    InitWith(SecretLists(MaxSyncSecrets),
             {NoPullSecret, PullSecret([r \in Registries |-> Max(Passwords)])},
             VaultDicts, {})

\* Environments with at most one declaration, every pull secret and every
\* "pull-secret" entry
InitPullSecret ==
    InitWith(SecretLists(1), PullSecrets, VaultDicts, PullSecretEntries)

Next ==
    \/ SyncStart
    \/ ResolvePass
    \/ SyncResolved
    \/ SyncApplication
    \/ SyncPullSecret
    \/ CleanApplication
    \/ AuditStart
    \/ AuditCompare

Spec == Init /\ [][Next]_vars

SpecPullSecret == InitPullSecret /\ [][Next]_vars

\* sync where any call that writes to Vault may raise
NextStoreFailure ==
    \/ SyncStart
    \/ ResolvePass
    \/ SyncResolved
    \/ SyncApplication
    \/ SyncPullSecret
    \/ CleanApplication
    \/ SyncApplicationFails
    \/ SyncPullSecretFails
    \/ CleanApplicationFails

SpecStoreFailure == Init /\ [][NextStoreFailure]_vars

\* sync of an environment with at most one declaration while another
\* client writes to Vault
InitExternalWrite ==
    InitWith(SecretLists(1),
             {NoPullSecret, PullSecret([r \in Registries |-> Max(Passwords)])},
             VaultDicts, {})

NextExternalWrite ==
    \/ SyncStart
    \/ ResolvePass
    \/ SyncResolved
    \/ SyncApplication
    \/ SyncPullSecret
    \/ CleanApplication
    \/ ExternalWrite

SpecExternalWrite == InitExternalWrite /\ [][NextExternalWrite]_vars

\* resolve by itself: _resolve_secrets entered with any declarations, any
\* snapshot and static values of the declared pairs, and either flag
InitResolve ==
    /\ secrets \in SecretLists(MaxSecrets)
    /\ static_secrets \in DictsOver(DeclaredPairs(secrets), StaticValues)
    /\ vault_secrets \in SnapshotDicts(DeclaredPairs(secrets))
    /\ vault = vault_secrets
    /\ pull_secret = NoPullSecret
    /\ regenerate \in BOOLEAN
    /\ delete = FALSE
    /\ resolved = EmptyDict
    /\ order = <<>>
    /\ unresolved = secrets
    /\ left = Len(secrets)
    /\ passes = 0
    /\ gen = 0
    /\ todo = <<>>
    /\ events = <<>>
    /\ calls = <<>>
    /\ report = NoReport
    /\ started = <<"resolve">>
    /\ op = "resolve"
    /\ pc = "resolve"
    /\ external = <<>>

NextResolve == ResolvePass \/ ResolveReturn

SpecResolve == InitResolve /\ [][NextResolve]_vars

\* resolve by itself where the snapshot and the static secrets also hold
\* keys that are not declared: up to MaxSyncSecrets declarations, snapshot
\* and static values of any of the pairs
InitResolveStray ==
    /\ secrets \in SecretLists(MaxSyncSecrets)
    /\ static_secrets \in DictsOver(Pairs, StaticValues)
    /\ vault_secrets \in SnapshotDicts(Pairs)
    /\ vault = vault_secrets
    /\ pull_secret = NoPullSecret
    /\ regenerate \in BOOLEAN
    /\ delete = FALSE
    /\ resolved = EmptyDict
    /\ order = <<>>
    /\ unresolved = secrets
    /\ left = Len(secrets)
    /\ passes = 0
    /\ gen = 0
    /\ todo = <<>>
    /\ events = <<>>
    /\ calls = <<>>
    /\ report = NoReport
    /\ started = <<"resolve">>
    /\ op = "resolve"
    /\ pc = "resolve"
    /\ external = <<>>

SpecResolveStray == InitResolveStray /\ [][NextResolve]_vars

\* ------------------------------------------------------------------ claims
InDict(d, p) == p[1] \in DOMAIN d /\ p[2] \in DOMAIN d[p[1]]
PairsOf(d) == UNION {{<<a, k>> : k \in DOMAIN d[a]} : a \in DOMAIN d}
Elements(s) == {s[i] : i \in 1..Len(s)}
NoDuplicates(s) == \A i, j \in 1..Len(s) : s[i] = s[j] => i = j

\* sync has run to its end
SyncDone == pc = "done" /\ op = "sync"

\* C1: after sync has completed, with any regenerate and delete flags, Vault
\* holds the resolved value of every resolved (application, key).
C1_StoreHoldsResolved ==
    SyncDone =>
        \A a \in DOMAIN resolved : \A k \in DOMAIN resolved[a] :
            Get2(vault, a, k) = resolved[a][k]

\* C2: the second of two syncs in succession that do not force regeneration
\* makes no change to Vault and reports none.
C2_SecondSyncChangesNothing ==
    (SyncDone /\ started = <<"sync", "sync">> /\ ~regenerate) =>
        (events = <<>> /\ calls = <<>>)

\* ---------------------------------------------------- claims about resolve
\* The pairs a declaration refers to: the secret it copies, or the source
\* of its from-source generate rule
References(config) ==
    IF config.copy_rules # NoCopy THEN {config.copy_rules}
    ELSE IF config.generate = "source" THEN {<<config.application, config.source>>}
    ELSE {}

CopyReferences(config) ==
    IF config.copy_rules # NoCopy THEN {config.copy_rules} ELSE {}

Refers(p, q) ==
    \E i \in 1..Len(secrets) : PairOf(secrets[i]) = p /\ q \in References(secrets[i])

Copies(p, q) ==
    \E i \in 1..Len(secrets) : PairOf(secrets[i]) = p /\ q \in CopyReferences(secrets[i])

RECURSIVE RefersWithin(_, _, _)
RefersWithin(p, q, n) ==
    n > 0 /\ (Refers(p, q) \/ \E r \in Pairs : Refers(p, r) /\ RefersWithin(r, q, n - 1))

RECURSIVE CopiesWithin(_, _, _)
CopiesWithin(p, q, n) ==
    n > 0 /\ (Copies(p, q) \/ \E r \in Pairs : Copies(p, r) /\ CopiesWithin(r, q, n - 1))

\* The references of the declarations form a DAG
IsDAG == \A p \in DeclaredPairs(secrets) : ~RefersWithin(p, p, Len(secrets))

\* Some declarations copy from each other in a cycle
HasCopyCycle == \E p \in DeclaredPairs(secrets) : CopiesWithin(p, p, Len(secrets))

CurrentValue(config) == Get2(vault_secrets, config.application, config.key)
StaticValue(config) == Get2(static_secrets, config.application, config.key)
ResolvedValue(config) == Get2(resolved, config.application, config.key)

HasNoRule(config) ==
    ~Truthy(config.value) /\ config.copy_rules = NoCopy /\ config.generate = "none"

\* Every declaration has a value in the resolved table and nothing else has
OneValueEach ==
    /\ \A i \in 1..Len(secrets) : Truthy(ResolvedValue(secrets[i]))
    /\ Len(order) = Len(secrets)

\* C3 as stated: when the references form a DAG, resolve does not raise the
\* unresolvable-secrets error, whatever the snapshot and the static values.
C3_DagNeverRaises == IsDAG => pc # "raised"

\* A DAG whose references all lead to declared secrets and whose
\* declarations without a rule have a static or a current value
WellFounded ==
    /\ IsDAG
    /\ \A i \in 1..Len(secrets) :
        /\ References(secrets[i]) \subseteq DeclaredPairs(secrets)
        /\ HasNoRule(secrets[i]) =>
               Truthy(StaticValue(secrets[i])) \/ Truthy(CurrentValue(secrets[i]))

\* C3 amended: for a well-founded declaration set resolve never raises, its
\* loop ends within as many passes as there are declarations, and it
\* returns one value per declaration.
C3_WellFoundedResolves ==
    WellFounded =>
        /\ pc # "raised"
        /\ passes <= Len(secrets)
        /\ passes = Len(secrets) => unresolved = <<>>
        /\ pc = "returned" => OneValueEach

C3_Witness ==
    /\ pc = "returned"
    /\ WellFounded
    /\ passes = 3
    /\ \E i \in 1..Len(secrets) : secrets[i].generate = "source"

\* C4: with a cycle of copies among the declarations, resolve never returns
\* a result and its loop does not go on: the pending list never empties and
\* the error is raised before as many passes as there are declarations.
C4_CopyCycleRaises ==
    HasCopyCycle =>
        /\ pc # "returned"
        /\ unresolved # <<>>
        /\ passes < Len(secrets)
        /\ pc = "resolve" => passes < Len(secrets) - 1

C4_Witness ==
    /\ pc = "raised"
    /\ HasCopyCycle
    /\ passes = 2
    /\ Len(unresolved) = 2

\* C5: a declaration with a generate rule (plain or from a source) that has
\* a current value resolves to it in the first pass when regeneration is
\* not forced, whether its source is resolved or not; when it is forced,
\* the value resolve returns is newly generated and differs from it.
C5_GeneratedStable ==
    \A i \in 1..Len(secrets) :
        LET config == secrets[i] IN
        (config.generate # "none" /\ Truthy(CurrentValue(config))) =>
            /\ (~regenerate /\ passes >= 1) => ResolvedValue(config) = CurrentValue(config)
            /\ (regenerate /\ pc = "returned") =>
                   /\ ResolvedValue(config) >= GenBase
                   /\ ResolvedValue(config) # CurrentValue(config)
                   /\ \A j \in 1..Len(secrets) :
                          (j # i /\ secrets[j].generate # "none") =>
                              ResolvedValue(secrets[j]) # ResolvedValue(config)

C5_Witness ==
    /\ pc = "raised"
    /\ ~regenerate
    /\ \E i \in 1..Len(secrets) :
        /\ secrets[i].generate = "source"
        /\ Truthy(CurrentValue(secrets[i]))
        /\ ResolvedValue(secrets[i]) = CurrentValue(secrets[i])
        /\ ~Truthy(Get2(resolved, secrets[i].application, secrets[i].source))

\* C6: in every result of resolve, a declaration with a copy rule has the
\* value the result holds for the secret it copies.
C6_CopyFidelity ==
    pc = "returned" =>
        \A i \in 1..Len(secrets) :
            secrets[i].copy_rules # NoCopy =>
                ResolvedValue(secrets[i]) =
                    Get2(resolved, secrets[i].copy_rules[1], secrets[i].copy_rules[2])

C6_Witness ==
    /\ pc = "returned"
    /\ \E i \in 1..Len(secrets) :
        /\ secrets[i].copy_rules # NoCopy
        /\ Truthy(CurrentValue(secrets[i]))
        /\ Truthy(StaticValue(secrets[i]))
        /\ ResolvedValue(secrets[i]) # CurrentValue(secrets[i])
        /\ ResolvedValue(secrets[i]) # StaticValue(secrets[i])
        /\ ResolvedValue(secrets[i]) >= GenBase

\* The pending list holds exactly the declarations without a resolved value
PendingExact ==
    /\ \A i \in 1..Len(secrets) :
           (\E j \in 1..Len(unresolved) : unresolved[j] = secrets[i])
               <=> ResolvedValue(secrets[i]) = None
    /\ \A j \in 1..Len(unresolved) : \E i \in 1..Len(secrets) : unresolved[j] = secrets[i]
    /\ \A j, k \in 1..Len(unresolved) : unresolved[j] = unresolved[k] => j = k

\* C10: a pass raises the error exactly when it has not shrunk the pending
\* list, so resolve fails at the end of the first such pass, and the list
\* the error carries holds exactly the declarations left without a value.
C10_RaisesAtFirstStall ==
    [][(pc = "resolve" /\ passes' = passes + 1) =>
           /\ (pc' = "raised") <=> (Len(unresolved') >= Len(unresolved))
           /\ pc' = "raised" => PendingExact']_vars

C10_Witness ==
    /\ pc = "raised"
    /\ passes = 2
    /\ Len(unresolved) = 1
    /\ Len(order) = 2

\* C11: in every result of resolve the resolved table has an entry for
\* each declared (application, key), each entered once, and for no other
\* pair: a key that only the snapshot or the static secrets hold is not
\* in it.
C11_ResolvedIsDeclared ==
    pc = "returned" =>
        /\ PairsOf(resolved) = DeclaredPairs(secrets)
        /\ Elements(order) = DeclaredPairs(secrets)
        /\ NoDuplicates(order)

C11_Witness ==
    /\ pc = "returned"
    /\ Len(secrets) = 2
    /\ PairsOf(vault_secrets) \ DeclaredPairs(secrets) # {}
    /\ PairsOf(static_secrets) \ DeclaredPairs(secrets) # {}
    /\ PairsOf(vault_secrets) \cap DeclaredPairs(secrets) # {}

RECURSIVE Chain(_, _)
\* The number of declarations on the longest dependency chain that starts
\* at the declared pair p and does not come back to a pair of seen
Chain(p, seen) ==
    LET next == {q \in DeclaredPairs(secrets) \ (seen \cup {p}) : Refers(p, q)}
    IN  1 + Max({0} \cup {Chain(q, seen \cup {p}) : q \in next})

LongestChain == Max({0} \cup {Chain(p, {}) : p \in DeclaredPairs(secrets)})

\* C15: whenever resolve returns a result, in whatever order the
\* declarations are listed, it has made at most as many passes as there
\* are declarations on the longest chain of copy and generate-from-source
\* references.
C15_PassBound == pc = "returned" => passes <= LongestChain

C15_Witness ==
    /\ pc = "returned"
    /\ Len(secrets) = 3
    /\ LongestChain = 2
    /\ passes = 2
    /\ \E i \in 1..Len(secrets) : secrets[i].copy_rules # NoCopy

\* C16: once the first pass is over, a declaration with a literal has the
\* literal as its value whatever its snapshot and static values are; a
\* declaration with a copy rule has no value or the value of the secret
\* it copies, not its own snapshot or static value; a declaration with a
\* generate rule has no value, its current value or a generated one, not
\* its static value; and a declaration without a rule has its static
\* value when it has one and its current value only when it has none.
C16_Precedence ==
    (pc \in {"resolve", "raised", "returned"} /\ passes >= 1) =>
        \A i \in 1..Len(secrets) :
            LET config == secrets[i]
                value == ResolvedValue(config)
            IN  IF Truthy(config.value) THEN value = config.value
                ELSE IF config.copy_rules # NoCopy
                THEN value \in {None, Get2(resolved, config.copy_rules[1],
                                           config.copy_rules[2])}
                ELSE IF config.generate # "none"
                THEN \/ value = None
                     \/ value = CurrentValue(config) /\ ~regenerate
                     \/ value >= GenBase
                ELSE IF Truthy(StaticValue(config)) THEN value = StaticValue(config)
                ELSE IF Truthy(CurrentValue(config)) THEN value = CurrentValue(config)
                ELSE value = None

C16_Witness ==
    /\ pc = "returned"
    /\ \A i \in 1..Len(secrets) :
           /\ Truthy(StaticValue(secrets[i]))
           /\ Truthy(CurrentValue(secrets[i]))
           /\ StaticValue(secrets[i]) # CurrentValue(secrets[i])
    /\ \E i \in 1..Len(secrets) :
           /\ Truthy(secrets[i].value)
           /\ secrets[i].value \notin {StaticValue(secrets[i]), CurrentValue(secrets[i])}
    /\ \E i \in 1..Len(secrets) : HasNoRule(secrets[i])
    /\ \E i \in 1..Len(secrets) : secrets[i].generate # "none" \/ secrets[i].copy_rules # NoCopy

\* -------------------------------------- claims about sync and its failures
\* The operation has got past the resolution: the reconciler or the
\* auditor has been given the resolved table
PastResolution == pc \in {"sync_apps", "sync_pull", "clean", "done", "audited"}

\* C12: when the resolution of a sync (or of an audit) raises the
\* unresolvable-secrets error, no call has been made to Vault, nothing has
\* been reported and Vault is what the snapshot has read; and the
\* reconciler and the auditor only ever work on a table that has a value
\* for every declaration.
C12_NoPartialCommit ==
    /\ pc = "raised" =>
           /\ calls = <<>>
           /\ events = <<>>
           /\ vault = vault_secrets
           /\ report = NoReport
    /\ (PastResolution \/ calls # <<>> \/ events # <<>>) =>
           /\ unresolved = <<>>
           /\ PairsOf(resolved) = DeclaredPairs(secrets)

C12_Witness ==
    /\ pc = "raised"
    /\ op = "sync"
    /\ started = <<"sync">>
    /\ delete
    /\ resolved # EmptyDict
    /\ \E a \in DOMAIN resolved : \E k \in DOMAIN resolved[a] :
           Get2(vault, a, k) # resolved[a][k]
    /\ PairsOf(vault) \ DeclaredPairs(secrets) # {}

\* The example: db.password with a generate rule and api.dbpass, a copy
\* of it, nothing in Vault, no pull secret and no forced regeneration
\* (application "a" stands for db, "b" for api, key "k1" for both keys)
DbPassword == Generate("a", "k1")
ApiDbpass == Copy("b", "k1", "a", "k1")

ExampleOf(declarations) ==
    /\ secrets = declarations
    /\ op = "sync"
    /\ started = <<"sync">>
    /\ vault_secrets = EmptyDict
    /\ ~regenerate
    /\ ~pull_secret.configured

TwoCreated ==
    /\ events = <<Event("created", "a", ""), Event("created", "b", "")>>
    /\ calls = <<Call("store", "a", ""), Call("store", "b", "")>>
    /\ resolved["a"]["k1"] >= GenBase
    /\ resolved["b"]["k1"] = resolved["a"]["k1"]
    /\ vault = resolved

\* C13 as stated: in the example, with db.password declared before
\* api.dbpass, the resolution takes two passes and sync reports two
\* creations and no update.
C13_ExampleTwoPasses ==
    (ExampleOf(<<DbPassword, ApiDbpass>>) /\ SyncDone) =>
        (passes = 2 /\ TwoCreated)

\* C13 amended: with db.password declared first one pass resolves both,
\* the copy finding the value generated earlier in the same pass; two
\* passes are needed when the copy is declared first.  In both orders
\* the resolution succeeds and sync reports two creations, one per
\* application, and no update.
C13_ExamplePasses ==
    /\ ExampleOf(<<DbPassword, ApiDbpass>>) =>
           /\ pc # "raised"
           /\ SyncDone => (passes = 1 /\ TwoCreated)
    /\ ExampleOf(<<ApiDbpass, DbPassword>>) =>
           /\ pc # "raised"
           /\ SyncDone => (passes = 2 /\ TwoCreated)

C13_Witness ==
    /\ ExampleOf(<<DbPassword, ApiDbpass>>)
    /\ SyncDone
    /\ Len(events) = 2

\* A declaration without a literal, a copy rule or a generate rule that
\* has neither a static value nor a current value in the snapshot
Bare(config) ==
    /\ HasNoRule(config)
    /\ ~Truthy(StaticValue(config))
    /\ ~Truthy(CurrentValue(config))

BareDeclared == \E i \in 1..Len(secrets) : Bare(secrets[i])

\* Resolving, or stopped by the error
InResolution == pc \in {"resolve", "raised"}

\* C14 as stated: a declaration that has no rule, no static value and no
\* current value does not make resolve raise; where nothing else is in
\* the way (the references form a DAG of declared secrets) the operation
\* goes on, and an audit lists the declaration as missing.
C14_SilentFallback ==
    (/\ InResolution \/ pc = "audited"
     /\ IsDAG
     /\ \A i \in 1..Len(secrets) : References(secrets[i]) \subseteq DeclaredPairs(secrets)
     /\ \E i \in 1..Len(secrets) :
            HasNoRule(secrets[i]) /\ ~Truthy(StaticValue(secrets[i]))
                /\ ~Truthy(Get2(vault, secrets[i].application, secrets[i].key)))
    => /\ pc # "raised"
       /\ pc = "audited" => report.missing # <<>>

\* C14 amended: such a declaration gets no value, stays pending after
\* every pass, and makes resolve raise the unresolvable-secrets error
\* within as many passes as there are declarations; the sync or the
\* audit stops there, so no call is made and no audit report lists the
\* declaration as missing.
C14_BareRaises ==
    /\ []((InResolution /\ BareDeclared) =>
             /\ \A i \in 1..Len(secrets) :
                    (Bare(secrets[i]) /\ passes >= 1) =>
                        /\ secrets[i] \in Elements(unresolved)
                        /\ ResolvedValue(secrets[i]) = None
             /\ passes <= Len(secrets)
             /\ passes = Len(secrets) => pc = "raised"
             /\ calls = <<>>
             /\ report = NoReport)
    /\ [][(pc = "resolve" /\ BareDeclared) => pc' \in {"resolve", "raised"}]_vars

C14_Witness ==
    /\ pc = "raised"
    /\ op = "audit"
    /\ Len(secrets) = 2
    /\ Len(order) = 1
    /\ Len(unresolved) = 1
    /\ Bare(unresolved[1])
    /\ passes = 2

\* C17: after a sync with delete = true has completed, every application
\* in Vault is a resolved one or the protected "pull-secret", and every
\* application that is both in the snapshot and resolved has exactly the
\* resolved keys in Vault.
C17_DeleteLeavesResolvedKeys ==
    (SyncDone /\ delete) =>
        /\ \A a \in DOMAIN vault :
               a \in DOMAIN resolved \/ Protected(a, HasPullSecret(pull_secret))
        /\ \A a \in DOMAIN vault_secrets \cap DOMAIN resolved :
               a \in DOMAIN vault /\ DOMAIN vault[a] = DOMAIN resolved[a]

NoDeletion ==
    /\ \A i \in 1..Len(calls) : calls[i].call # "delete"
    /\ \A i \in 1..Len(events) : events[i].kind # "deleted"

\* The resolved set: the resolved table and, for a pull secret with
\* registries, the key the serialized pull secret is stored under
ResolvedSet ==
    PairsOf(resolved) \cup
        (IF HasPullSecretWithRegistries(pull_secret)
         THEN {<<"pull-secret", ".dockerconfigjson">>} ELSE {})

\* C18 as stated: after a sync with delete = false every (application,
\* key) of the snapshot that is not in the resolved set is in Vault with
\* the value it had, the keys of "pull-secret" included, and nothing has
\* been deleted.
C18_NoDeleteKeepsAll ==
    (SyncDone /\ ~delete) =>
        /\ \A p \in PairsOf(vault_secrets) \ ResolvedSet :
               Get2(vault, p[1], p[2]) = vault_secrets[p[1]][p[2]]
        /\ NoDeletion

\* C18 amended: throughout a sync with delete = false every (application,
\* key) of the snapshot that is not resolved and is not of "pull-secret"
\* is in Vault with the value it had, and nothing is deleted; the
\* "pull-secret" entry is left as it was when the environment has no
\* pull secret with registries or the entry equals the serialized pull
\* secret, and otherwise it is replaced as a whole by the one key
\* .dockerconfigjson, any other key of the entry being dropped.
C18_NoDeleteKeepsApplications ==
    (op = "sync" /\ ~delete) =>
        /\ \A p \in PairsOf(vault_secrets) \ PairsOf(resolved) :
               p[1] # "pull-secret" =>
                   Get2(vault, p[1], p[2]) = vault_secrets[p[1]][p[2]]
        /\ NoDeletion
        /\ pc # "clean"
        /\ "pull-secret" \in DOMAIN vault_secrets =>
               LET secret == [k \in {".dockerconfigjson"} |->
                                 ToDockerconfigjson(pull_secret)]
                   entry == vault_secrets["pull-secret"]
               IN  IF pc = "done" /\ HasPullSecretWithRegistries(pull_secret)
                      /\ entry # secret
                   THEN vault["pull-secret"] = secret
                   ELSE vault["pull-secret"] = entry

C18_Witness ==
    /\ SyncDone
    /\ ~delete
    /\ "pull-secret" \in DOMAIN vault_secrets
    /\ "k1" \in DOMAIN vault_secrets["pull-secret"]
    /\ DOMAIN vault["pull-secret"] = {".dockerconfigjson"}
    /\ \E p \in PairsOf(vault_secrets) \ PairsOf(resolved) : p[1] # "pull-secret"
    /\ \E i \in 1..Len(calls) : calls[i].call = "update"

\* The call to Vault that an event reports
CallOfEvent(e) ==
    IF e.kind = "created" THEN Call("store", e.application, "")
    ELSE IF e.kind = "updated"
    THEN (IF e.key = "" THEN Call("store", e.application, "")
          ELSE Call("update", e.application, e.key))
    ELSE (IF e.key = "" THEN Call("delete", e.application, "")
          ELSE Call("store", e.application, ""))

\* The events report the calls that have succeeded, and only those
EventsMatchCalls ==
    /\ \A i \in 1..Len(events) : CallOfEvent(events[i]) \in Elements(calls)
    /\ \A j \in 1..Len(calls) :
           \E i \in 1..Len(events) : CallOfEvent(events[i]) = calls[j]

\* What the calls that have succeeded wrote is in Vault (an update unless
\* a later store call of the same sync has replaced the entry)
CallsApplied ==
    \A j \in 1..Len(calls) :
        LET c == calls[j]
            a == c.application
        IN  IF c.call = "delete" THEN a \notin DOMAIN vault
            ELSE IF c.call = "update"
            THEN \/ Get2(vault, a, c.key) = resolved[a][c.key]
                 \/ \E l \in (j + 1)..Len(calls) : calls[l] = Call("store", a, "")
            ELSE IF a = "pull-secret"
            THEN vault[a] = [k \in {".dockerconfigjson"} |->
                                ToDockerconfigjson(pull_secret)]
            ELSE IF a \in DOMAIN vault_secrets THEN vault[a] = vault_secrets[a]
            ELSE vault[a] = resolved[a]

\* C19: when a call that writes to Vault raises during a sync, the sync
\* stops there; what the calls before it wrote is in Vault, and an event
\* has been reported for each call that succeeded and for no other.
C19_FailureKeepsAndReportsWrites ==
    pc = "failed" => (CallsApplied /\ EventsMatchCalls)

\* ------------------------------------- claims about another client's writes
\* The external write w was made in the running sync before any call of
\* that sync about w's application, and is the only one to the application
BeforeSyncWrites(w) ==
    /\ w.run = Len(started)
    /\ \A j \in 1..w.after : calls[j].application # w.application
    /\ \A i \in 1..Len(external) :
           external[i].application = w.application => external[i] = w

CalledAfter(w, c) == \E j \in (w.after + 1)..Len(calls) : calls[j] = c

\* C20: a sync never looks at Vault again after it has read its snapshot,
\* so what another client writes in between is overwritten without an
\* error.  When the sync has completed: a key the client has set in an
\* application of the snapshot, and whose resolved value differs from the
\* snapshot's, has been updated to the resolved value; an application the
\* client has created, and that is resolved, has been stored over with the
\* resolved entry; and an entry that the cleaning has rewritten after the
\* client's write holds what was left of the snapshot's entry.
C20_ExternalWriteOverwritten ==
    SyncDone =>
        \A i \in 1..Len(external) :
            LET w == external[i]
                a == w.application
                k == w.key
            IN  BeforeSyncWrites(w) =>
                    /\ (/\ ~delete
                        /\ a \in DOMAIN vault_secrets
                        /\ InDict(resolved, <<a, k>>)
                        /\ resolved[a][k] # Get2(vault_secrets, a, k))
                       => /\ CalledAfter(w, Call("update", a, k))
                          /\ vault[a][k] = resolved[a][k]
                    /\ (a \notin DOMAIN vault_secrets /\ a \in DOMAIN resolved)
                       => /\ CalledAfter(w, Call("store", a, ""))
                          /\ vault[a] = resolved[a]
                    /\ (/\ a \in DOMAIN vault_secrets
                        /\ CalledAfter(w, Call("store", a, "")))
                       => vault[a] = vault_secrets[a]

\* A sync has completed and Vault no longer holds what the other client
\* wrote after the snapshot was read: a key of an entry that the cleaning
\* has rewritten from the snapshot
C20_Witness ==
    /\ SyncDone
    /\ Len(external) = 1
    /\ BeforeSyncWrites(external[1])
    /\ external[1].after = 0
    /\ Get2(vault, external[1].application, external[1].key) # external[1].value
    /\ delete
    /\ external[1].application \in DOMAIN vault_secrets
    /\ calls = <<Call("store", external[1].application, "")>>
    /\ InDict(resolved, <<external[1].application, external[1].key>>)

\* -------------------------------------------- claims about the pull secret
RECURSIVE ForApplication(_, _)
\* The calls or events of a sequence that are about an application
ForApplication(s, application) ==
    IF s = <<>> THEN <<>>
    ELSE IF Head(s).application = application
    THEN <<Head(s)>> \o ForApplication(Tail(s), application)
    ELSE ForApplication(Tail(s), application)

\* C7: a sync with delete = true in an environment with a pull secret
\* never deletes the "pull-secret" entry of Vault, although no declaration
\* is of that application.
C7_PullSecretNeverDeleted ==
    (op = "sync" /\ delete /\ pull_secret.configured) =>
        /\ \A i \in 1..Len(calls) :
               ~(calls[i].call = "delete" /\ calls[i].application = "pull-secret")
        /\ \A i \in 1..Len(events) :
               ~(events[i].kind = "deleted" /\ events[i].application = "pull-secret")
        /\ "pull-secret" \in DOMAIN vault_secrets => "pull-secret" \in DOMAIN vault

C7_Witness ==
    /\ SyncDone
    /\ delete
    /\ pull_secret = PullSecret(EmptyDict)
    /\ "pull-secret" \in DOMAIN vault_secrets
    /\ "pull-secret" \notin DOMAIN resolved
    /\ \E i \in 1..Len(calls) : calls[i].call = "delete"

\* _sync_pull_secret has run
PullSecretSynced ==
    /\ op = "sync"
    /\ pc \in {"clean", "done"}
    /\ pull_secret.configured
    /\ pull_secret.registries # EmptyDict

\* C8: when the serialized pull secret differs from the snapshot's
\* "pull-secret" entry sync makes one call, which stores the whole entry,
\* and reports one update; when there is no entry it makes one such call
\* and reports one creation; when the entry is equal it makes no call.
C8_PullSecretAtomic ==
    PullSecretSynced =>
        LET secret == [k \in {".dockerconfigjson"} |-> ToDockerconfigjson(pull_secret)]
            made == ForApplication(calls, "pull-secret")
            said == ForApplication(events, "pull-secret")
        IN  IF "pull-secret" \notin DOMAIN vault_secrets
            THEN /\ made = <<Call("store", "pull-secret", "")>>
                 /\ said = <<Event("created", "pull-secret", "")>>
                 /\ vault["pull-secret"] = secret
            ELSE IF vault_secrets["pull-secret"] # secret
            THEN /\ made = <<Call("store", "pull-secret", "")>>
                 /\ said = <<Event("updated", "pull-secret", "")>>
                 /\ vault["pull-secret"] = secret
            ELSE made = <<>> /\ said = <<>>

\* One registry's password has changed
C8_Witness ==
    /\ PullSecretSynced
    /\ "pull-secret" \in DOMAIN vault_secrets
    /\ DOMAIN vault_secrets["pull-secret"] = {".dockerconfigjson"}
    /\ vault_secrets["pull-secret"][".dockerconfigjson"] # ToDockerconfigjson(pull_secret)
    /\ ForApplication(events, "pull-secret") = <<Event("updated", "pull-secret", "")>>

\* ------------------------------------------------------ claims about audit
\* C9: audit reports a pair as missing iff it is resolved and not in the
\* snapshot, as a mismatch iff it is in both with different values, as
\* unknown iff it is in the snapshot and not resolved, and not at all iff
\* it is in both with the same value; no pair is reported twice.  (An audit
\* writes nothing, so Vault still is the snapshot the audit has read.)
C9_AuditClassifies ==
    pc = "audited" =>
        /\ \A p \in PairsOf(resolved) \cup PairsOf(vault) :
            /\ p \in Elements(report.missing) <=>
                   InDict(resolved, p) /\ ~InDict(vault, p)
            /\ p \in Elements(report.mismatch) <=>
                   /\ InDict(resolved, p) /\ InDict(vault, p)
                   /\ resolved[p[1]][p[2]] # vault[p[1]][p[2]]
            /\ p \in Elements(report.unknown) <=>
                   ~InDict(resolved, p) /\ InDict(vault, p)
        /\ Elements(report.missing) \cup Elements(report.mismatch)
               \cup Elements(report.unknown)
               \subseteq PairsOf(resolved) \cup PairsOf(vault)
        /\ NoDuplicates(report.missing \o report.mismatch \o report.unknown)

C9_Witness ==
    /\ pc = "audited"
    /\ report.missing # <<>>
    /\ report.mismatch # <<>>
    /\ report.unknown # <<>>

\* C21: the audit that follows a completed sync with delete = true, of the
\* same environment (its pull secret included) and with nothing else
\* writing to Vault in between, reports no missing, no mismatched and no
\* unknown secret.
C21_AuditAfterSyncIsClean ==
    (pc = "audited" /\ started = <<"sync", "audit">> /\ delete) =>
        report = NoReport
====
